---- MODULE Spec2Model ----
(***************************************************************************)
(* Model of organizar_fotos.py: the background worker OrganizerThread      *)
(* (validate, walk, classify, preview, date lookup, destination path,      *)
(* makedirs, copy/move, logs) and the controller's stop() request.         *)
(*                                                                         *)
(* Strings are sequences of one-character strings, so that lower(),        *)
(* splitext(), str() and the 02d format are computed and not assumed.      *)
(* A path is a sequence of components, each component a string.            *)
(***************************************************************************)
EXTENDS Integers, Sequences, FiniteSets, TLC

\* ------------------------------------------------------------------ bounds
\* Largest number of non-directory entries os.walk yields in one run.
MaxFiles == 3

\* Largest number of stop() calls made on one worker.
MaxStops == 2

\* ------------------------------------------------------------ text helpers
Last(s) == s[Len(s)]

Range(s) == {s[i] : i \in 1..Len(s)}

UpperToLower ==
    [c \in {"A","B","C","D","E","F","G","H","I","J","K","L","M",
            "N","O","P","Q","R","S","T","U","V","W","X","Y","Z"} |->
        CASE c = "A" -> "a" [] c = "B" -> "b" [] c = "C" -> "c" [] c = "D" -> "d"
          [] c = "E" -> "e" [] c = "F" -> "f" [] c = "G" -> "g" [] c = "H" -> "h"
          [] c = "I" -> "i" [] c = "J" -> "j" [] c = "K" -> "k" [] c = "L" -> "l"
          [] c = "M" -> "m" [] c = "N" -> "n" [] c = "O" -> "o" [] c = "P" -> "p"
          [] c = "Q" -> "q" [] c = "R" -> "r" [] c = "S" -> "s" [] c = "T" -> "t"
          [] c = "U" -> "u" [] c = "V" -> "v" [] c = "W" -> "w" [] c = "X" -> "x"
          [] c = "Y" -> "y" [] c = "Z" -> "z"]

\* str.lower()
lower(s) == [i \in 1..Len(s) |-> IF s[i] \in DOMAIN UpperToLower
                                   THEN UpperToLower[s[i]] ELSE s[i]]

\* Position of the last "." of a file name, 0 when it has none (str.rfind).
rfindDot(name) ==
    LET ds == {i \in 1..Len(name) : name[i] = "."}
    IN  IF ds = {} THEN 0 ELSE CHOOSE i \in ds : \A j \in ds : j <= i

\* os.path.splitext(path)[1]: the suffix from the last dot of the last
\* component, empty when that component has no dot or only leading dots.
splitext_ext(path) ==
    LET name == Last(path)
        d    == rfindDot(name)
    IN  IF d > 0 /\ \E i \in 1..(d - 1) : name[i] # "."
          THEN SubSeq(name, d, Len(name))
          ELSE <<>>

Digits == <<"0","1","2","3","4","5","6","7","8","9">>

\* str(n) for a non-negative integer.
RECURSIVE str(_)
str(n) == IF n < 10 THEN <<Digits[n + 1]>>
                    ELSE str(n \div 10) \o <<Digits[(n % 10) + 1]>>

\* f"{n:02d}"
fmt02d(n) == IF n < 10 THEN <<"0">> \o str(n) ELSE str(n)

\* os.path.join over component sequences.
join(base, parts) == base \o parts

\* os.path.dirname
dirname(path) == SubSeq(path, 1, Len(path) - 1)


\* ------------------------------------------------------------------ dates
IsDigit(c) == c \in Range(Digits)

digit(c) == (CHOOSE i \in 1..10 : Digits[i] = c) - 1

\* int() of a string of decimal digits.
RECURSIVE int(_)
int(s) == IF s = <<>> THEN 0
          ELSE 10 * int(SubSeq(s, 1, Len(s) - 1)) + digit(Last(s))

IsLeap(y) == (y % 4 = 0 /\ y % 100 # 0) \/ y % 400 = 0

DaysIn(y, m) == IF m = 2 THEN (IF IsLeap(y) THEN 29 ELSE 28)
                ELSE IF m \in {4, 6, 9, 11} THEN 30 ELSE 31

\* datetime.strptime(value, "%Y:%m:%d %H:%M:%S") on the fixed-width form
\* "YYYY:MM:DD HH:MM:SS": ok is FALSE where strptime raises ValueError
\* (wrong shape, or a field outside the calendar).
strptime(value) ==
    LET shape == /\ Len(value) = 19
                 /\ value[5] = ":" /\ value[8] = ":" /\ value[11] = " "
                 /\ value[14] = ":" /\ value[17] = ":"
                 /\ \A i \in (1..19) \ {5, 8, 11, 14, 17} : IsDigit(value[i])
        y  == int(SubSeq(value, 1, 4))
        m  == int(SubSeq(value, 6, 7))
        d  == int(SubSeq(value, 9, 10))
        hh == int(SubSeq(value, 12, 13))
        mm == int(SubSeq(value, 15, 16))
        ss == int(SubSeq(value, 18, 19))
    IN  IF shape /\ y >= 1 /\ m \in 1..12 /\ d >= 1 /\ d <= DaysIn(y, m)
              /\ hh <= 23 /\ mm <= 59 /\ ss <= 61
          THEN [ok |-> TRUE, date |-> [year |-> y, month |-> m, day |-> d]]
          ELSE [ok |-> FALSE, date |-> [year |-> 0, month |-> 0, day |-> 0]]

\* ------------------------------------------------- the source tree (input)
\* The non-directory entries a source tree may hold.  dir is the entry's
\* directory below the source folder, kind says whether os.path.isfile holds,
\* exif is what Image.open / _getexif give ("error": an exception, "none":
\* no EXIF data, "notag": EXIF without DateTimeOriginal, "tag": value is the
\* DateTimeOriginal string), mtime is datetime.fromtimestamp(getmtime).
Catalog == <<
    [dir |-> <<>>, name |-> <<"a",".","j","p","g">>, kind |-> "file", exif |-> "tag",
     value |-> <<"2","0","2","1",":","0","5",":","0","3"," ","1","0",":","0","0",":","0","0">>,
     mtime |-> [year |-> 2020, month |-> 1, day |-> 15]],
    [dir |-> <<>>, name |-> <<"b",".","t","x","t">>, kind |-> "file", exif |-> "error",
     value |-> <<>>, mtime |-> [year |-> 2020, month |-> 1, day |-> 15]],
    [dir |-> <<>>, name |-> <<".","p","n","g">>, kind |-> "file", exif |-> "none",
     value |-> <<>>, mtime |-> [year |-> 2021, month |-> 5, day |-> 3]],
    [dir |-> <<>>, name |-> <<"e",".","j","p","g">>, kind |-> "other", exif |-> "error",
     value |-> <<>>, mtime |-> [year |-> 2021, month |-> 5, day |-> 3]],
    [dir |-> << <<"s","u","b">> >>, name |-> <<"c",".","M","P","4">>, kind |-> "file",
     exif |-> "error", value |-> <<>>, mtime |-> [year |-> 2020, month |-> 1, day |-> 15]],
    [dir |-> << <<"s","u","b">> >>, name |-> <<"a",".","j","p","g">>, kind |-> "file",
     exif |-> "tag",
     value |-> <<"0","0","0","0",":","0","0",":","0","0"," ","0","0",":","0","0",":","0","0">>,
     mtime |-> [year |-> 2021, month |-> 5, day |-> 3]],
    [dir |-> << <<"s","u","b">> >>, name |-> <<"f",".","J","P","e","G">>, kind |-> "file",
     exif |-> "notag", value |-> <<>>, mtime |-> [year |-> 2020, month |-> 12, day |-> 31]]
>>

Ids == 1..Len(Catalog)

\* os.walk is top-down: the files of the source folder come before those of
\* its subdirectories; within one directory the order is the file system's.
\* A walk lists some entries of the catalogue, each once.
WalksUpTo(m) ==
    {w \in UNION {[1..n -> Ids] : n \in 0..m} :
        \A i, j \in 1..Len(w) :
            i < j => /\ w[i] # w[j]
                     /\ Len(Catalog[w[i]].dir) <= Len(Catalog[w[j]].dir)}

Walks == WalksUpTo(MaxFiles)

SrcRoot == << <<"s","r","c">> >>

DstRoot == << <<"d","s","t">> >>

\* The three labels of the method box ("Ano/Mes", "Ano/Mes/Dia" with their
\* accents dropped) and one value that is none of them: __init__ takes any.
Methods == {"Ano/Mes", "Ano/Mes/Dia", "Evento Personalizado", "otro"}


\* --------------------------------------------------- OrganizerThread: pure
IMAGE_EXT == { <<".","j","p","g">>, <<".","j","p","e","g">>, <<".","p","n","g">>,
               <<".","g","i","f">>, <<".","b","m","p">>, <<".","t","i","f","f">>,
               <<".","w","e","b","p">>, <<".","h","e","i","c">> }

VIDEO_EXT == { <<".","m","p","4">>, <<".","m","o","v">>, <<".","a","v","i">>,
               <<".","m","k","v">>, <<".","f","l","v">> }

is_image(file_path) == lower(splitext_ext(file_path)) \in IMAGE_EXT

is_video(file_path) == lower(splitext_ext(file_path)) \in VIDEO_EXT

\* os.path.join(root, filename) for catalogue entry e under source folder src.
file_path_of(src, e) == join(join(src, e.dir), <<e.name>>)

\* get_photo_date: DateTimeOriginal when Image.open and _getexif succeed, the
\* tag is present and strptime parses it; every exception is swallowed and
\* the result is then the modification time.
get_photo_date(e) ==
    IF e.exif = "tag" /\ strptime(e.value).ok
      THEN strptime(e.value).date
      ELSE e.mtime

\* generate_dest_path without the 02d padding of month and day.
generate_dest_path_unpadded(m, dest, photo_date, filename) ==
    IF m = "Ano/Mes"
      THEN join(dest, <<str(photo_date.year), str(photo_date.month), filename>>)
    ELSE IF m = "Ano/Mes/Dia"
      THEN join(dest, <<str(photo_date.year), str(photo_date.month),
                        str(photo_date.day), filename>>)
    ELSE join(dest, <<<<"E","v","e","n","t","o","_","P","e","r","s","o","n","a","l","i","z","a","d","o">>,
                      filename>>)

\* generate_dest_path(photo_date, filename) of a thread with the given
\* method and dest_folder.
generate_dest_path(m, dest, photo_date, filename) ==
    IF m = "Ano/Mes"
      THEN join(dest, <<str(photo_date.year), fmt02d(photo_date.month), filename>>)
    ELSE IF m = "Ano/Mes/Dia"
      THEN join(dest, <<str(photo_date.year), fmt02d(photo_date.month),
                        fmt02d(photo_date.day), filename>>)
    ELSE join(dest, <<<<"E","v","e","n","t","o","_","P","e","r","s","o","n","a","l","i","z","a","d","o">>,
                      filename>>)

\* The directories os.makedirs(d, exist_ok=True) leaves existing: d and all
\* its ancestors.
Ancestors(d) == {SubSeq(d, 1, n) : n \in 1..Len(d)}

\* ------------------------------------------------------------------ state
VARIABLES
    source_folder,  \* thread fields set by __init__
    dest_folder,
    method,
    copy_files,
    stop_flag,
    mutex,          \* "free", "worker" or "controller": who holds self.mutex
    pc,             \* where run() stands
    walk,           \* the entries os.walk yields, as catalogue ids
    idx,            \* position of the current entry in walk
    photo_date,     \* locals of the loop body
    dest_path,
    cpc,            \* where the controller stands: "idle" or inside stop()
    trace,          \* signals emitted and copy/move calls made, in order
    srcFiles,       \* ids of the entries present in the source tree
    destFiles,      \* the files below the destination: [path, content]
    destDirs,       \* directories created below the destination
    stopBeforeAny,  \* stop() wrote the flag before the first check read it
    runNo,          \* "first" or "second" run of the same request
    prev,           \* what the first run left: its trace and destination
    checks,         \* the values check_stop_flag has returned, in order
    stopCalls,      \* how many stop() calls have returned
    attemptsAtStop, \* copy/move calls made when stop() first returned, else -1
    organizing_thread,  \* PhotoOrganizerApp: "none" or "thread"
    start_enabled,  \* start_button.isEnabled()
    stop_enabled,   \* stop_button.isEnabled()
    started,        \* how many workers start_organization has started
    connected,      \* the worker's signals are connected to the window's slots
    queue,          \* signals emitted and not yet delivered to the slots
    log_box,        \* the lines of the log box
    scene           \* the path shown by the preview, <<>> for none

vars == <<source_folder, dest_folder, method, copy_files, stop_flag, mutex, pc,
          walk, idx, photo_date, dest_path, cpc, trace, srcFiles, destFiles,
          destDirs, stopBeforeAny, runNo, prev, checks, stopCalls,
          attemptsAtStop, organizing_thread, start_enabled, stop_enabled,
          started, connected, queue, log_box, scene>>

\* The window's own state, which no step of the worker or of stop() touches.
gui == <<organizing_thread, start_enabled, stop_enabled, started, connected,
         log_box, scene>>

request == <<source_folder, dest_folder, method, copy_files>>

NoDate == [year |-> 0, month |-> 0, day |-> 0]

\* One element of trace.  ev is "log", "preview", "copy2" or "move".
Event(ev, kind, id, path, dest) ==
    [ev |-> ev, kind |-> kind, id |-> id, path |-> path, dest |-> dest]

\* log_signal.emit(...): kind is the message, id the entry whose filename the
\* message carries (0 for none), dest the destination path it carries.
Log(kind, id, dest) == Event("log", kind, id, <<>>, dest)

Cur == Catalog[walk[idx]]

\* A worker constructed on its own, with any request and no window: its
\* signals have no receiver.
Init ==
    /\ source_folder \in {<<>>, SrcRoot}
    /\ dest_folder \in {<<>>, DstRoot}
    /\ method \in Methods
    /\ copy_files \in BOOLEAN
    /\ stop_flag = FALSE
    /\ mutex = "free"
    /\ pc = "start"
    /\ walk = <<>>
    /\ idx = 1
    /\ photo_date = NoDate
    /\ dest_path = <<>>
    /\ cpc = "idle"
    /\ trace = <<>>
    /\ srcFiles = {}
    /\ destFiles = {}
    /\ destDirs = {}
    /\ stopBeforeAny = FALSE
    /\ runNo = "first"
    /\ prev = [trace |-> <<>>, destFiles |-> {}, destDirs |-> {}]
    /\ checks = <<>>
    /\ stopCalls = 0
    /\ attemptsAtStop = -1
    /\ organizing_thread = "none"
    /\ start_enabled = TRUE
    /\ stop_enabled = FALSE
    /\ started = 0
    /\ connected = FALSE
    /\ queue = <<>>
    /\ log_box = <<>>
    /\ scene = <<>>


\* ------------------------------------------------------ reading the trace
Count(seq, Test(_)) == Len(SelectSeq(seq, Test))

\* How many elements of seq are logs of the given kind.
Logs(seq, kind) == Count(seq, LAMBDA e : e.ev = "log" /\ e.kind = kind)

\* How many logs of the given kind name entry id.
LogsOf(seq, kind, id) ==
    Count(seq, LAMBDA e : e.ev = "log" /\ e.kind = kind /\ e.id = id)

AllLogs(seq) == Count(seq, LAMBDA e : e.ev = "log")

Previews(seq) == Count(seq, LAMBDA e : e.ev = "preview")

PreviewsOf(seq, id) == Count(seq, LAMBDA e : e.ev = "preview" /\ e.id = id)

\* copy2 or move calls, whatever their outcome.
Attempts(seq) == Count(seq, LAMBDA e : e.ev \in {"copy2", "move"})

AttemptsOf(seq, id) == Count(seq, LAMBDA e : e.ev \in {"copy2", "move"} /\ e.id = id)

\* Logs that speak of entry id.
ResultLogsOf(seq, id) == Count(seq, LAMBDA e : e.ev = "log" /\ e.id = id)

\* ------------------------------------------------------- OrganizerThread.run
\* Signal.emit from the worker thread to a slot of the window: the call is
\* queued for the window's event loop when the signal is connected, and has
\* no receiver otherwise.
Post(e) == IF connected THEN Append(queue, e) ELSE queue

Emit(e) ==
    /\ trace' = Append(trace, e)
    /\ queue' = Post(e)

\* The walk of a run: any tree on the first run (one entry fewer for a worker
\* of the window, whose event loop multiplies the states); on the second run
\* the same listing, less the entries a move has taken away.
WalkChoices ==
    IF runNo = "second" THEN {SelectSeq(walk, LAMBDA i : i \in srcFiles)}
    ELSE IF organizing_thread = "thread" THEN WalksUpTo(MaxFiles - 1)
    ELSE Walks

\* Validate with "and" for "or" in the guard of line 26.
ValidateAnd ==
    /\ pc = "start"
    /\ IF source_folder = <<>> /\ dest_folder = <<>>
         THEN /\ Emit(Log("missing", 0, <<>>))
              /\ pc' = "done"
              /\ UNCHANGED <<walk, srcFiles>>
         ELSE /\ \E w \in WalkChoices :
                    /\ walk' = w
                    /\ srcFiles' = Range(w)
              /\ pc' = "check"
              /\ UNCHANGED <<trace, queue>>
    /\ idx' = 1
    /\ UNCHANGED <<request, stop_flag, mutex, photo_date, dest_path, cpc,
                   destFiles, destDirs, stopBeforeAny, runNo, prev>>
    /\ UNCHANGED <<checks, stopCalls, attemptsAtStop, gui>>

\* Lines 26-30: the guard on the two folders, then os.walk lists the tree.
Validate ==
    /\ pc = "start"
    /\ IF source_folder = <<>> \/ dest_folder = <<>>
         THEN /\ Emit(Log("missing", 0, <<>>))
              /\ pc' = "done"
              /\ UNCHANGED <<walk, srcFiles>>
         ELSE /\ \E w \in WalkChoices :
                    /\ walk' = w
                    /\ srcFiles' = Range(w)
              /\ pc' = "check"
              /\ UNCHANGED <<trace, queue>>
    /\ idx' = 1
    /\ UNCHANGED <<request, stop_flag, mutex, photo_date, dest_path, cpc,
                   destFiles, destDirs, stopBeforeAny, runNo, prev>>
    /\ UNCHANGED <<checks, stopCalls, attemptsAtStop, gui>>

\* check_stop_flag, entering QMutexLocker (line 66) for the next entry.
CheckLock ==
    /\ pc = "check"
    /\ idx <= Len(walk)
    /\ mutex = "free"
    /\ mutex' = "worker"
    /\ pc' = "locked"
    /\ UNCHANGED <<request, stop_flag, walk, idx, photo_date, dest_path, cpc,
                   trace, srcFiles, destFiles, destDirs, stopBeforeAny, runNo, prev>>
    /\ UNCHANGED <<checks, stopCalls, attemptsAtStop, queue, gui>>

\* CheckRead without the return of line 36: the loop goes on after the
\* stopped message.
CheckReadNoReturn ==
    /\ pc = "locked"
    /\ mutex' = "free"
    /\ IF stop_flag
         THEN Emit(Log("stopped", 0, <<>>))
         ELSE UNCHANGED <<trace, queue>>
    /\ pc' = "classify"
    /\ UNCHANGED <<request, stop_flag, walk, idx, photo_date, dest_path, cpc,
                   srcFiles, destFiles, destDirs, stopBeforeAny, runNo, prev>>
    /\ checks' = Append(checks, stop_flag)
    /\ UNCHANGED <<stopCalls, attemptsAtStop, gui>>

\* CheckRead with the check hoisted out of the inner loop: the flag counts
\* only at the first entry.
CheckReadFirstOnly ==
    /\ pc = "locked"
    /\ mutex' = "free"
    /\ IF stop_flag /\ idx = 1
         THEN /\ Emit(Log("stopped", 0, <<>>))
              /\ pc' = "done"
         ELSE /\ pc' = "classify"
              /\ UNCHANGED <<trace, queue>>
    /\ UNCHANGED <<request, stop_flag, walk, idx, photo_date, dest_path, cpc,
                   srcFiles, destFiles, destDirs, stopBeforeAny, runNo, prev>>
    /\ checks' = Append(checks, stop_flag /\ idx = 1)
    /\ UNCHANGED <<stopCalls, attemptsAtStop, gui>>

\* check_stop_flag returns the flag and releases the mutex (line 67); run
\* emits the stopped message and returns when it is set (lines 34-36).
CheckRead ==
    /\ pc = "locked"
    /\ mutex' = "free"
    /\ IF stop_flag
         THEN /\ Emit(Log("stopped", 0, <<>>))
              /\ pc' = "done"
         ELSE /\ pc' = "classify"
              /\ UNCHANGED <<trace, queue>>
    /\ UNCHANGED <<request, stop_flag, walk, idx, photo_date, dest_path, cpc,
                   srcFiles, destFiles, destDirs, stopBeforeAny, runNo, prev>>
    /\ checks' = Append(checks, stop_flag)
    /\ UNCHANGED <<stopCalls, attemptsAtStop, gui>>

\* The two tests of lines 38-42.
Wanted(src, e) ==
    /\ e.kind = "file"
    /\ is_image(file_path_of(src, e)) \/ is_video(file_path_of(src, e))

\* Skip with the preview emitted before the two tests.
SkipAfterPreview ==
    /\ pc = "classify"
    /\ ~Wanted(source_folder, Cur)
    /\ Emit(Event("preview", "", walk[idx], file_path_of(source_folder, Cur), <<>>))
    /\ idx' = idx + 1
    /\ pc' = "check"
    /\ UNCHANGED <<request, stop_flag, mutex, walk, photo_date, dest_path, cpc,
                   srcFiles, destFiles, destDirs, stopBeforeAny, runNo, prev>>
    /\ UNCHANGED <<checks, stopCalls, attemptsAtStop, gui>>

\* Lines 38-42: continue on an entry that is no regular file or no media.
Skip ==
    /\ pc = "classify"
    /\ ~Wanted(source_folder, Cur)
    /\ idx' = idx + 1
    /\ pc' = "check"
    /\ UNCHANGED <<request, stop_flag, mutex, walk, photo_date, dest_path, cpc,
                   trace, srcFiles, destFiles, destDirs, stopBeforeAny, runNo, prev>>
    /\ UNCHANGED <<checks, stopCalls, attemptsAtStop, queue, gui>>

\* Line 45: preview_signal.emit(file_path).
Preview ==
    /\ pc = "classify"
    /\ Wanted(source_folder, Cur)
    /\ Emit(Event("preview", "", walk[idx], file_path_of(source_folder, Cur), <<>>))
    /\ pc' = "date"
    /\ UNCHANGED <<request, stop_flag, mutex, walk, idx, photo_date, dest_path, cpc,
                   srcFiles, destFiles, destDirs, stopBeforeAny, runNo, prev>>
    /\ UNCHANGED <<checks, stopCalls, attemptsAtStop, gui>>

\* Lines 47-48.
ComputeDest ==
    /\ pc = "date"
    /\ photo_date' = get_photo_date(Cur)
    /\ dest_path' = generate_dest_path(method, dest_folder, photo_date', Cur.name)
    /\ pc' = "mkdirs"
    /\ UNCHANGED <<request, stop_flag, mutex, walk, idx, cpc, trace, srcFiles,
                   destFiles, destDirs, stopBeforeAny, runNo, prev>>
    /\ UNCHANGED <<checks, stopCalls, attemptsAtStop, queue, gui>>

\* Line 50, os.makedirs succeeding.
MakeDirsOk ==
    /\ pc = "mkdirs"
    /\ destDirs' = destDirs \cup Ancestors(dirname(dest_path))
    /\ pc' = "reloc"
    /\ UNCHANGED <<request, stop_flag, mutex, walk, idx, photo_date, dest_path, cpc,
                   trace, srcFiles, destFiles, stopBeforeAny, runNo, prev>>
    /\ UNCHANGED <<checks, stopCalls, attemptsAtStop, queue, gui>>

\* Line 50, os.makedirs raising (it cannot when the directory exists): the
\* call stands outside the try of line 52, so the exception leaves run().
MakeDirsFail ==
    /\ pc = "mkdirs"
    /\ dirname(dest_path) \notin destDirs
    /\ pc' = "crashed"
    /\ UNCHANGED <<request, stop_flag, mutex, walk, idx, photo_date, dest_path, cpc,
                   trace, srcFiles, destFiles, destDirs, stopBeforeAny, runNo, prev>>
    /\ UNCHANGED <<checks, stopCalls, attemptsAtStop, queue, gui>>

\* The destination after a file with the given content is written at path.
Put(files, path, content) ==
    {f \in files : f.path # path} \cup {[path |-> path, content |-> content]}

Call == IF copy_files THEN "copy2" ELSE "move"

\* RelocateOk that keeps an existing destination file and writes the new one
\* under a changed name.
RelocateOkRename ==
    /\ pc = "reloc"
    /\ destFiles' =
          IF \E f \in destFiles : f.path = dest_path
            THEN Put(destFiles, Append(dirname(dest_path), Last(dest_path) \o <<"_","1">>),
                     walk[idx])
            ELSE Put(destFiles, dest_path, walk[idx])
    /\ srcFiles' = IF copy_files THEN srcFiles ELSE srcFiles \ {walk[idx]}
    /\ trace' = trace \o
         << Event(Call, "ok", walk[idx], file_path_of(source_folder, Cur), dest_path),
            Log(IF copy_files THEN "copied" ELSE "moved", walk[idx], dest_path) >>
    /\ idx' = idx + 1
    /\ pc' = "check"
    /\ UNCHANGED <<request, stop_flag, mutex, walk, photo_date, dest_path, cpc,
                   destDirs, stopBeforeAny, runNo, prev>>
    /\ queue' = Post(Log(IF copy_files THEN "copied" ELSE "moved", walk[idx], dest_path))
    /\ UNCHANGED <<checks, stopCalls, attemptsAtStop, gui>>

\* Lines 53-58: shutil.copy2 or shutil.move succeeds, then the success log.
RelocateOk ==
    /\ pc = "reloc"
    /\ destFiles' = Put(destFiles, dest_path, walk[idx])
    /\ srcFiles' = IF copy_files THEN srcFiles ELSE srcFiles \ {walk[idx]}
    /\ trace' = trace \o
         << Event(Call, "ok", walk[idx], file_path_of(source_folder, Cur), dest_path),
            Log(IF copy_files THEN "copied" ELSE "moved", walk[idx], dest_path) >>
    /\ idx' = idx + 1
    /\ pc' = "check"
    /\ UNCHANGED <<request, stop_flag, mutex, walk, photo_date, dest_path, cpc,
                   destDirs, stopBeforeAny, runNo, prev>>
    /\ queue' = Post(Log(IF copy_files THEN "copied" ELSE "moved", walk[idx], dest_path))
    /\ UNCHANGED <<checks, stopCalls, attemptsAtStop, gui>>

\* RelocateFail of a move that has removed the source before it raises.
RelocateFailUnlinked ==
    /\ pc = "reloc"
    /\ trace' = trace \o
         << Event(Call, "raised", walk[idx], file_path_of(source_folder, Cur), dest_path),
            Log("error", walk[idx], <<>>) >>
    /\ srcFiles' = IF copy_files THEN srcFiles ELSE srcFiles \ {walk[idx]}
    /\ idx' = idx + 1
    /\ pc' = "check"
    /\ UNCHANGED <<request, stop_flag, mutex, walk, photo_date, dest_path, cpc,
                   destFiles, destDirs, stopBeforeAny, runNo, prev>>
    /\ queue' = Post(Log("error", walk[idx], <<>>))
    /\ UNCHANGED <<checks, stopCalls, attemptsAtStop, gui>>

\* Lines 59-60: the copy or move raises, the failure log names the file.
RelocateFail ==
    /\ pc = "reloc"
    /\ trace' = trace \o
         << Event(Call, "raised", walk[idx], file_path_of(source_folder, Cur), dest_path),
            Log("error", walk[idx], <<>>) >>
    /\ idx' = idx + 1
    /\ pc' = "check"
    /\ UNCHANGED <<request, stop_flag, mutex, walk, photo_date, dest_path, cpc,
                   srcFiles, destFiles, destDirs, stopBeforeAny, runNo, prev>>
    /\ queue' = Post(Log("error", walk[idx], <<>>))
    /\ UNCHANGED <<checks, stopCalls, attemptsAtStop, gui>>

\* Line 62: the walk is exhausted.
Complete ==
    /\ pc = "check"
    /\ idx > Len(walk)
    /\ Emit(Log("completed", 0, <<>>))
    /\ pc' = "done"
    /\ UNCHANGED <<request, stop_flag, mutex, walk, idx, photo_date, dest_path, cpc,
                   srcFiles, destFiles, destDirs, stopBeforeAny, runNo, prev>>
    /\ UNCHANGED <<checks, stopCalls, attemptsAtStop, gui>>

\* ---------------------------------------------------- OrganizerThread.stop
\* StopLock without the QMutexLocker wait: stop() goes on whoever holds the
\* mutex.
StopLockNoWait ==
    /\ cpc = "idle"
    /\ mutex' = "controller"
    /\ cpc' = "stopping"
    /\ UNCHANGED <<request, stop_flag, pc, walk, idx, photo_date, dest_path,
                   trace, srcFiles, destFiles, destDirs, stopBeforeAny, runNo, prev>>
    /\ stopCalls < MaxStops
    /\ UNCHANGED <<checks, stopCalls, attemptsAtStop, queue, gui>>

\* stop(), entering QMutexLocker (line 71).
StopLock ==
    /\ cpc = "idle"
    /\ mutex = "free"
    /\ mutex' = "controller"
    /\ cpc' = "stopping"
    /\ UNCHANGED <<request, stop_flag, pc, walk, idx, photo_date, dest_path,
                   trace, srcFiles, destFiles, destDirs, stopBeforeAny, runNo, prev>>
    /\ stopCalls < MaxStops
    /\ UNCHANGED <<checks, stopCalls, attemptsAtStop, queue, gui>>

\* StopWrite assigning to a misspelt attribute: the flag read by the worker
\* stays as it was.
StopWriteTypo ==
    /\ cpc = "stopping"
    /\ mutex' = "free"
    /\ cpc' = "idle"
    /\ stopBeforeAny' = (stopBeforeAny \/ pc = "start" \/ (pc = "check" /\ idx = 1))
    /\ UNCHANGED <<request, stop_flag, pc, walk, idx, photo_date, dest_path, trace,
                   srcFiles, destFiles, destDirs, runNo, prev>>
    /\ stopCalls' = stopCalls + 1
    /\ attemptsAtStop' = IF attemptsAtStop = -1 THEN Attempts(trace) ELSE attemptsAtStop
    /\ UNCHANGED <<checks, queue, gui>>

\* StopWrite that flips the flag instead of setting it.
StopWriteToggle ==
    /\ cpc = "stopping"
    /\ stop_flag' = ~stop_flag
    /\ mutex' = "free"
    /\ cpc' = "idle"
    /\ stopBeforeAny' = (stopBeforeAny \/ pc = "start" \/ (pc = "check" /\ idx = 1))
    /\ UNCHANGED <<request, pc, walk, idx, photo_date, dest_path, trace,
                   srcFiles, destFiles, destDirs, runNo, prev>>
    /\ stopCalls' = stopCalls + 1
    /\ attemptsAtStop' = IF attemptsAtStop = -1 THEN Attempts(trace) ELSE attemptsAtStop
    /\ UNCHANGED <<checks, queue, gui>>

\* stop() sets the flag and releases the mutex (line 72).
StopWrite ==
    /\ cpc = "stopping"
    /\ stop_flag' = TRUE
    /\ mutex' = "free"
    /\ cpc' = "idle"
    /\ stopBeforeAny' = (stopBeforeAny \/ pc = "start" \/ (pc = "check" /\ idx = 1))
    /\ UNCHANGED <<request, pc, walk, idx, photo_date, dest_path, trace,
                   srcFiles, destFiles, destDirs, runNo, prev>>
    /\ stopCalls' = stopCalls + 1
    /\ attemptsAtStop' = IF attemptsAtStop = -1 THEN Attempts(trace) ELSE attemptsAtStop
    /\ UNCHANGED <<checks, queue, gui>>

\* ----------------------------------------------------------- a second run
\* A new OrganizerThread is constructed with the same request (lines 15-22)
\* once the first has ended, and run over the same folders.
Restart ==
    /\ runNo = "first"
    /\ pc \in {"done", "crashed"}
    /\ cpc = "idle"
    /\ runNo' = "second"
    /\ prev' = [trace |-> trace, destFiles |-> destFiles, destDirs |-> destDirs]
    /\ stop_flag' = FALSE
    /\ mutex' = "free"
    /\ pc' = "start"
    /\ idx' = 1
    /\ photo_date' = NoDate
    /\ dest_path' = <<>>
    /\ trace' = <<>>
    /\ stopBeforeAny' = FALSE
    /\ UNCHANGED <<request, walk, cpc, srcFiles, destFiles, destDirs>>
    /\ checks' = <<>>
    /\ stopCalls' = 0
    /\ attemptsAtStop' = -1
    /\ UNCHANGED <<queue, gui>>

\* ------------------------------------------------------ PhotoOrganizerApp
\* The items of the method box (line 119).
ComboItems == {"Ano/Mes", "Ano/Mes/Dia", "Evento Personalizado"}

\* The window after init_ui: no folder chosen, no worker, the start button
\* enabled and the stop button disabled (lines 122-124, 148-150).
InitUI ==
    /\ source_folder = <<>>
    /\ dest_folder = <<>>
    /\ method = "Ano/Mes"
    /\ copy_files = FALSE
    /\ stop_flag = FALSE
    /\ mutex = "free"
    /\ pc = "none"
    /\ walk = <<>>
    /\ idx = 1
    /\ photo_date = NoDate
    /\ dest_path = <<>>
    /\ cpc = "idle"
    /\ trace = <<>>
    /\ srcFiles = {}
    /\ destFiles = {}
    /\ destDirs = {}
    /\ stopBeforeAny = FALSE
    /\ runNo = "first"
    /\ prev = [trace |-> <<>>, destFiles |-> {}, destDirs |-> {}]
    /\ checks = <<>>
    /\ stopCalls = 0
    /\ attemptsAtStop = -1
    /\ organizing_thread = "none"
    /\ start_enabled = TRUE
    /\ stop_enabled = FALSE
    /\ started = 0
    /\ connected = FALSE
    /\ queue = <<>>
    /\ log_box = <<>>
    /\ scene = <<>>

\* select_source_folder with a folder chosen (a cancelled dialog changes
\* nothing).  The folders are read by start_organization alone.
SelectSource ==
    /\ cpc = "idle"
    /\ organizing_thread = "none"
    /\ source_folder' = SrcRoot
    /\ UNCHANGED <<dest_folder, method, copy_files, stop_flag, mutex, pc, walk, idx,
                   photo_date, dest_path, cpc, trace, srcFiles, destFiles, destDirs,
                   stopBeforeAny, runNo, prev, checks, stopCalls, attemptsAtStop,
                   queue, gui>>

\* select_dest_folder with a folder chosen.
SelectDest ==
    /\ cpc = "idle"
    /\ organizing_thread = "none"
    /\ dest_folder' = DstRoot
    /\ UNCHANGED <<source_folder, method, copy_files, stop_flag, mutex, pc, walk, idx,
                   photo_date, dest_path, cpc, trace, srcFiles, destFiles, destDirs,
                   stopBeforeAny, runNo, prev, checks, stopCalls, attemptsAtStop,
                   queue, gui>>

\* What start_organization does but for the signals and the buttons: the log
\* box is cleared, a worker is constructed from the window's folders, method
\* and copy box (lines 170-174) and started (line 177).
StartWorker ==
    /\ cpc = "idle"
    /\ start_enabled
    /\ log_box' = <<>>
    /\ method' \in ComboItems
    /\ copy_files' \in BOOLEAN
    /\ stop_flag' = FALSE
    /\ mutex' = "free"
    /\ pc' = "start"
    /\ walk' = <<>>
    /\ idx' = 1
    /\ photo_date' = NoDate
    /\ dest_path' = <<>>
    /\ trace' = <<>>
    /\ stopBeforeAny' = FALSE
    /\ checks' = <<>>
    /\ stopCalls' = 0
    /\ attemptsAtStop' = -1
    /\ organizing_thread' = "thread"
    /\ started' = started + 1
    /\ UNCHANGED <<source_folder, dest_folder, cpc, srcFiles, destFiles, destDirs,
                   runNo, prev, queue, scene>>

\* start_organization that never connects log_signal and preview_signal.
StartOrganizationUnconnected ==
    /\ StartWorker
    /\ connected' = FALSE
    /\ start_enabled' = FALSE
    /\ stop_enabled' = TRUE

\* start_organization that leaves the start button enabled.
StartOrganizationStaysEnabled ==
    /\ StartWorker
    /\ connected' = TRUE
    /\ start_enabled' = start_enabled
    /\ stop_enabled' = TRUE

\* start_organization, the slot of the start button (lines 169-180): the
\* signals are connected before the worker starts, then the start button is
\* disabled and the stop button enabled.
StartOrganization ==
    /\ StartWorker
    /\ connected' = TRUE
    /\ start_enabled' = FALSE
    /\ stop_enabled' = TRUE

\* stop_organization, the slot of the stop button (lines 182-184), up to
\* stop() taking the mutex; StopWrite ends it.
StopOrganization ==
    /\ stop_enabled
    /\ organizing_thread # "none"
    /\ StopLock

\* Deliver with the newest signal taken first.
DeliverNewest ==
    /\ cpc = "idle"
    /\ queue # <<>>
    /\ queue' = SubSeq(queue, 1, Len(queue) - 1)
    /\ IF Last(queue).ev = "log"
         THEN log_box' = Append(log_box, Last(queue)) /\ scene' = scene
         ELSE scene' = Last(queue).path /\ log_box' = log_box
    /\ UNCHANGED <<request, stop_flag, mutex, pc, walk, idx, photo_date, dest_path,
                   cpc, trace, srcFiles, destFiles, destDirs, stopBeforeAny, runNo,
                   prev, checks, stopCalls, attemptsAtStop, organizing_thread,
                   start_enabled, stop_enabled, started, connected>>

\* The window's event loop runs the slot of the oldest queued signal:
\* log_box.append for a log (line 175), show_image_preview for a preview
\* (lines 176, 186-189).
Deliver ==
    /\ cpc = "idle"
    /\ queue # <<>>
    /\ queue' = Tail(queue)
    /\ IF Head(queue).ev = "log"
         THEN log_box' = Append(log_box, Head(queue)) /\ scene' = scene
         ELSE scene' = Head(queue).path /\ log_box' = log_box
    /\ UNCHANGED <<request, stop_flag, mutex, pc, walk, idx, photo_date, dest_path,
                   cpc, trace, srcFiles, destFiles, destDirs, stopBeforeAny, runNo,
                   prev, checks, stopCalls, attemptsAtStop, organizing_thread,
                   start_enabled, stop_enabled, started, connected>>

\* ------------------------------------------------------- specifications
Worker ==
    \/ Validate
    \/ CheckLock
    \/ CheckRead
    \/ Skip
    \/ Preview
    \/ ComputeDest
    \/ MakeDirsOk
    \/ MakeDirsFail
    \/ RelocateOk
    \/ RelocateFail
    \/ Complete

Next ==
    \/ Worker
    \/ StopLock
    \/ StopWrite

Spec == Init /\ [][Next]_vars

\* Two successive runs of one request, with no stop() call.
NextTwice ==
    \/ Worker
    \/ Restart

SpecTwice == Init /\ [][NextTwice]_vars

\* The window, its one worker thread and the event loop between them.
NextUI ==
    \/ SelectSource
    \/ SelectDest
    \/ StartOrganization
    \/ StopOrganization
    \/ StopWrite
    \/ Deliver
    \/ Worker

SpecUI == InitUI /\ [][NextUI]_vars


\* ------------------------------------------------------ reading the state
RunEnded == pc \in {"done", "crashed"}

FoldersGiven == source_folder # <<>> /\ dest_folder # <<>>

\* The catalogue entries that are regular files with an image or video
\* extension: a.jpg, sub/c.MP4, sub/a.jpg, sub/f.JPeG.
MediaIds == {1, 5, 6, 7}

\* --------------------------------------------------------------- claims

\* C1: with the source or the destination folder empty, a run emits exactly
\* one log (the missing-folder warning), no preview, creates no directory,
\* makes no copy or move, and ends.
C1_MissingFolder ==
    ~FoldersGiven =>
        /\ pc \in {"start", "done"}
        /\ pc = "start" => trace = <<>>
        /\ pc = "done" => trace = <<Log("missing", 0, <<>>)>>
        /\ destDirs = {} /\ destFiles = {} /\ srcFiles = {} /\ walk = <<>>

C1_Witness ==
    /\ source_folder # <<>> /\ dest_folder = <<>>
    /\ pc = "done"
    /\ trace = <<Log("missing", 0, <<>>)>>

\* C2: in a run with both folders given and no stop() call, every regular
\* file with a media extension gets exactly one copy/move attempt, every
\* other entry none and neither log nor preview.
C2_OneAttemptEach ==
    (RunEnded /\ FoldersGiven /\ ~stop_flag /\ cpc = "idle") =>
        \A i \in 1..Len(walk) :
            IF walk[i] \in MediaIds
              THEN AttemptsOf(trace, walk[i]) = 1
              ELSE /\ AttemptsOf(trace, walk[i]) = 0
                   /\ ResultLogsOf(trace, walk[i]) = 0
                   /\ PreviewsOf(trace, walk[i]) = 0

\* C3: a failure of makedirs or of the copy/move on a file is caught, gives
\* exactly one failure log naming the file, and the run goes on: it is never
\* aborted, and it ends with the stopped or the completion message.
C3_FailureCaught ==
    /\ pc # "crashed"
    /\ \A id \in Ids :
          LogsOf(trace, "error", id) =
              Count(trace, LAMBDA e : e.ev \in {"copy2", "move"} /\ e.id = id
                                       /\ e.kind = "raised")
    /\ (pc = "done" /\ FoldersGiven) =>
          Last(trace) \in {Log("stopped", 0, <<>>), Log("completed", 0, <<>>)}

\* C4 as stated: with both folders given, when stop() set the flag before
\* the worker processed any file, the run makes no attempt, emits no preview
\* and exactly one log, the stopped message, for every source tree.
C4_StoppedEarly_AnyTree ==
    (RunEnded /\ FoldersGiven /\ stopBeforeAny) =>
        trace = <<Log("stopped", 0, <<>>)>>

\* C4 as amended: the same when the walk yields at least one entry; when it
\* yields none no check is made and the one log is the completion message.
C4_StoppedEarly ==
    (RunEnded /\ FoldersGiven /\ stopBeforeAny) =>
        /\ pc = "done"
        /\ trace = IF walk = <<>> THEN <<Log("completed", 0, <<>>)>>
                                  ELSE <<Log("stopped", 0, <<>>)>>
        /\ destFiles = {} /\ destDirs = {}

C4_Witness ==
    /\ pc = "done" /\ FoldersGiven /\ stopBeforeAny
    /\ Len(walk) >= 2 /\ walk[1] \in MediaIds
    /\ trace = <<Log("stopped", 0, <<>>)>>

\* C5: a run that has ended has, as its last notification, the missing-folder
\* warning, the stopped message or the completion message.
C5_TerminalLog ==
    RunEnded =>
        /\ trace # <<>>
        /\ Last(trace) \in {Log("missing", 0, <<>>), Log("stopped", 0, <<>>),
                            Log("completed", 0, <<>>)}


\* C6: the completion message is emitted at most once, only with every entry
\* of the walk visited and no check having seen the flag set, never in a run
\* that has the stopped message or the missing-folder warning, and nothing
\* is emitted after it.
C6_CompletionLast ==
    /\ Logs(trace, "completed") <= 1
    /\ Logs(trace, "completed") = 1 =>
          /\ Last(trace) = Log("completed", 0, <<>>)
          /\ pc = "done"
          /\ FoldersGiven
          /\ idx = Len(walk) + 1
          /\ Logs(trace, "stopped") = 0
          /\ Logs(trace, "missing") = 0
          /\ \A i \in 1..Len(walk) :
                walk[i] \in MediaIds => PreviewsOf(trace, walk[i]) = 1

C6_Witness ==
    /\ pc = "done"
    /\ Last(trace) = Log("completed", 0, <<>>)
    /\ Len(walk) >= 2
    /\ Attempts(trace) >= 1
    /\ stop_flag

\* The destination path law, read back from a path: below the destination
\* folder come the year in decimal, the month as two digits, for
\* "Ano/Mes/Dia" the day as two digits, and the file name; for any other
\* method the folder Evento_Personalizado and the file name.
PathLaw(p, m, dest, date, filename) ==
    LET k == Len(dest) IN
    /\ Len(p) > k
    /\ SubSeq(p, 1, k) = dest
    /\ Last(p) = filename
    /\ IF m = "Ano/Mes"
         THEN /\ Len(p) = k + 3
              /\ int(p[k + 1]) = date.year /\ p[k + 1][1] # "0"
              /\ Len(p[k + 2]) = 2 /\ int(p[k + 2]) = date.month
       ELSE IF m = "Ano/Mes/Dia"
         THEN /\ Len(p) = k + 4
              /\ int(p[k + 1]) = date.year /\ p[k + 1][1] # "0"
              /\ Len(p[k + 2]) = 2 /\ int(p[k + 2]) = date.month
              /\ Len(p[k + 3]) = 2 /\ int(p[k + 3]) = date.day
       ELSE /\ Len(p) = k + 2
            /\ p[k + 1] = <<"E","v","e","n","t","o","_","P","e","r","s","o","n","a","l","i","z","a","d","o">>

\* C7: the destination path is fixed by the destination folder, the capture
\* date, the method and the file name alone, by the law above, whatever the
\* file's subdirectory; and each copy/move is made to exactly that path.
C7_DestPathLaw ==
    /\ pc \in {"mkdirs", "reloc"} =>
          PathLaw(dest_path, method, dest_folder, photo_date, Cur.name)
    /\ \A i \in 1..Len(trace) :
          trace[i].ev \in {"copy2", "move"} =>
              /\ PathLaw(trace[i].dest, method, dest_folder,
                         get_photo_date(Catalog[trace[i].id]), Catalog[trace[i].id].name)
              /\ trace[i].path = SrcRoot \o Catalog[trace[i].id].dir
                                         \o <<Catalog[trace[i].id].name>>
    /\ pc = "check" /\ trace # <<>> /\ Last(trace).ev = "log" /\ Last(trace).id # 0 =>
          trace[Len(trace) - 1].dest = dest_path

\* Both a.jpg (EXIF date 2021-05-03) and sub/a.jpg (modified 2021-05-03) went
\* to dst/2021/05/a.jpg.
C7_Witness ==
    /\ method = "Ano/Mes"
    /\ \E i, j \in 1..Len(trace) :
          /\ trace[i].ev \in {"copy2", "move"} /\ trace[i].id = 1
          /\ trace[j].ev \in {"copy2", "move"} /\ trace[j].id = 6
          /\ trace[i].dest = << <<"d","s","t">>, <<"2","0","2","1">>, <<"0","5">>,
                                <<"a",".","j","p","g">> >>
          /\ trace[j].dest = trace[i].dest


\* A run that ended with the completion message and no failure log.
CleanRun(t) ==
    /\ t # <<>>
    /\ Last(t) = Log("completed", 0, <<>>)
    /\ Logs(t, "error") = 0

Processed(i) ==
    \/ i < idx
    \/ i = idx /\ pc \in {"date", "mkdirs", "reloc", "crashed"}

\* C9: a preview carrying the file's path is emitted exactly once for each
\* media file the worker processes and never for another entry, and it comes
\* before the copy/move of the file and before the log of its outcome.
C9_PreviewOnceBefore ==
    /\ \A i \in 1..Len(walk) :
          PreviewsOf(trace, walk[i])
              = (IF walk[i] \in MediaIds /\ Processed(i) THEN 1 ELSE 0)
    /\ \A k \in 1..Len(trace) :
          /\ trace[k].ev = "preview" =>
                /\ trace[k].id \in Range(walk)
                /\ trace[k].path = SrcRoot \o Catalog[trace[k].id].dir
                                           \o <<Catalog[trace[k].id].name>>
          /\ (trace[k].ev # "preview" /\ trace[k].id # 0) =>
                \E j \in 1..(k - 1) :
                    trace[j].ev = "preview" /\ trace[j].id = trace[k].id

C9_Witness ==
    /\ Len(walk) = 3 /\ idx = 3
    /\ walk[1] \notin MediaIds /\ walk[2] \in MediaIds
    /\ Len(trace) = 3
    /\ trace[1].ev = "preview" /\ trace[1].id = walk[2]
    /\ trace[2].ev \in {"copy2", "move"} /\ trace[3].ev = "log"

\* The capture date of each media entry of the catalogue: DateTimeOriginal
\* for a.jpg, the modification time for the three whose metadata read fails.
ExpectedDate(id) ==
    CASE id = 1 -> [year |-> 2021, month |-> 5, day |-> 3]
      [] id = 5 -> [year |-> 2020, month |-> 1, day |-> 15]
      [] id = 6 -> [year |-> 2021, month |-> 5, day |-> 3]
      [] id = 7 -> [year |-> 2020, month |-> 12, day |-> 31]

\* C10: a metadata-read error is recovered silently: the capture date is the
\* modification time, no log is emitted for it, and the file still gets its
\* copy/move attempt; a DateTimeOriginal that parses is the capture date.
C10_MetadataFallback ==
    /\ pc \in {"mkdirs", "reloc"} =>
          /\ photo_date = ExpectedDate(walk[idx])
          /\ walk[idx] \in {5, 6, 7} => photo_date = Cur.mtime
          /\ walk[idx] = 1 => photo_date # Cur.mtime
    /\ \A id \in Ids : ResultLogsOf(trace, id) = AttemptsOf(trace, id)
    /\ RunEnded =>
          \A id \in Ids : PreviewsOf(trace, id) = AttemptsOf(trace, id)


\* How many times check_stop_flag must have returned for the worker to stand
\* where it stands: once for each entry taken up, the current one included
\* once its check is behind it.
ChecksDue ==
    IF pc = "start" THEN 0
    ELSE IF pc \in {"check", "locked"} THEN idx - 1
    ELSE IF pc \in {"classify", "date", "mkdirs", "reloc", "crashed"} THEN idx
    ELSE IF Logs(trace, "stopped") = 1 THEN idx
    ELSE IF Logs(trace, "missing") = 1 THEN 0
    ELSE Len(walk)

\* C11: the flag is read exactly once before each entry; once a read sees it
\* set the worker emits the stopped message once and does nothing more; so
\* after stop() has returned the run completes at most one copy/move.
C11_CancelPerEntry ==
    /\ Len(checks) = ChecksDue
    /\ \A i \in 1..(Len(checks) - 1) : ~checks[i]
    /\ Logs(trace, "stopped") = (IF checks # <<>> /\ Last(checks) THEN 1 ELSE 0)
    /\ (checks # <<>> /\ Last(checks)) =>
          /\ pc = "done"
          /\ Last(trace) = Log("stopped", 0, <<>>)
          /\ Previews(trace) = Attempts(trace)
          /\ Attempts(trace) = Len(checks) - 1 - Cardinality({i \in 1..(idx - 1) : walk[i] \notin MediaIds})
    /\ attemptsAtStop # -1 => Attempts(trace) <= attemptsAtStop + 1

\* stop() returned while the second file was past its check: that file was
\* still copied or moved, the third was not.
C11_Witness ==
    /\ pc = "done" /\ Len(walk) = 3 /\ idx = 3
    /\ checks = <<FALSE, FALSE, TRUE>>
    /\ attemptsAtStop = 1 /\ Attempts(trace) = 2
    /\ Last(trace) = Log("stopped", 0, <<>>)

\* C12: processing is sequential: at most one file is in flight, the
\* notifications of a run are (preview of f, then one success or failure log
\* for f) repeated, then at most one terminal log, and each processed file
\* goes to one destination path.
C12_Sequential ==
    /\ Previews(trace) - Attempts(trace) \in {0, 1}
    /\ \A k \in 1..Len(trace) :
          /\ trace[k].ev = "preview" =>
                \/ k = Len(trace)
                \/ /\ k + 2 <= Len(trace)
                   /\ trace[k + 1].ev \in {"copy2", "move"} /\ trace[k + 1].id = trace[k].id
                   /\ trace[k + 2].ev = "log" /\ trace[k + 2].id = trace[k].id
                   /\ trace[k + 2].kind \in {"copied", "moved", "error"}
          /\ trace[k].ev \in {"copy2", "move"} => k > 1 /\ trace[k - 1].ev = "preview"
          /\ (trace[k].ev = "log" /\ trace[k].id # 0) =>
                k > 1 /\ trace[k - 1].ev \in {"copy2", "move"}
          /\ (trace[k].ev = "log" /\ trace[k].id = 0) => k = Len(trace)
    /\ \A id \in Ids : AttemptsOf(trace, id) <= 1
    /\ RunEnded => Previews(trace) = Attempts(trace)

\* What holds of the mutex in every state.
MutexHeldRight ==
    /\ (mutex = "worker") = (pc = "locked")
    /\ (mutex = "controller") = (cpc = "stopping")
    /\ ~(pc = "locked" /\ cpc = "stopping")
    /\ mutex = "worker" => ENABLED CheckRead
    /\ mutex = "controller" => ENABLED StopWrite

\* What holds of every step: the flag is written and read under the mutex,
\* and no signal is emitted or file touched with the worker holding it.
MutexStep ==
    /\ stop_flag' # stop_flag => mutex = "controller" /\ mutex' = "free"
    /\ checks' # checks => mutex = "worker" /\ mutex' = "free"
    /\ trace' # trace => mutex' # "worker"
    /\ (destFiles' # destFiles \/ destDirs' # destDirs \/ srcFiles' # srcFiles
          \/ Attempts(trace') # Attempts(trace)) =>
          mutex # "worker" /\ mutex' # "worker"

\* C13: the flag is accessed only under the worker's mutex, the two threads
\* are never both inside the critical section, the lock is never held across
\* a file operation or a notification, and whoever holds it can release it
\* at once, so stop() never waits for the run to finish.
C13_MutexDiscipline == [](MutexHeldRight) /\ [][MutexStep]_vars

\* stop() has returned while the worker stands between makedirs and the copy.
C13_Witness ==
    /\ pc = "reloc" /\ stop_flag /\ stopCalls = 1 /\ cpc = "idle" /\ mutex = "free"

\* A step of stop() that returns with the flag already set changes nothing
\* but the lock and the count of calls.
StopAgainStep ==
    (cpc = "stopping" /\ cpc' = "idle" /\ stop_flag) =>
        UNCHANGED <<request, stop_flag, pc, walk, idx, photo_date, dest_path, trace,
                    srcFiles, destFiles, destDirs, stopBeforeAny, checks, queue, gui>>

\* C14: the flag is false at construction, only stop() changes it, it is
\* never reset, a repeated stop() leaves the state of a single one, and a
\* run has at most one stopped message.
C14_StopMonotonic ==
    /\ [](/\ stop_flag = (stopCalls >= 1)
          /\ Logs(trace, "stopped") <= 1)
    /\ [][/\ stop_flag => stop_flag'
          /\ stop_flag' # stop_flag => cpc = "stopping" /\ cpc' = "idle"
          /\ StopAgainStep]_vars

\* stop() called twice, once during the run and once after it ended.
C14_Witness ==
    /\ stopCalls = 2 /\ stop_flag /\ pc = "done"
    /\ Logs(trace, "stopped") = 1
    /\ Attempts(trace) >= 1


\* The logs of a sequence of events, in order.
LogsIn(seq) == SelectSeq(seq, LAMBDA e : e.ev = "log")

\* The signals of a sequence of events, in order.
SignalsIn(seq) == SelectSeq(seq, LAMBDA e : e.ev \in {"log", "preview"})

\* C15: the log box holds the worker's logs in the order of emission, none
\* lost, doubled or out of place (with the logs still queued behind them
\* they are all the logs emitted), and the worker never waits for the
\* window: only stop() holding the mutex can keep it from its next step.
C15_FifoNoWait ==
    pc # "none" =>
        /\ log_box \o LogsIn(queue) = LogsIn(trace)
        /\ Len(queue) <= Len(SignalsIn(trace))
        /\ queue = SubSeq(SignalsIn(trace),
                          Len(SignalsIn(trace)) - Len(queue) + 1, Len(SignalsIn(trace)))
        /\ scene # <<>> =>
              \E k \in 1..Len(trace) : trace[k].ev = "preview" /\ trace[k].path = scene
        /\ ~RunEnded => (mutex = "controller" \/ ENABLED Worker)

\* The run is over, with two files copied or moved, and nothing delivered.
C15_Witness ==
    /\ pc = "done" /\ log_box = <<>> /\ scene = <<>>
    /\ Len(queue) = 5
    /\ Len(LogsIn(queue)) = 3
    /\ Last(queue) = Log("completed", 0, <<>>)

\* What holds of the window's buttons and worker in every state.
OneWorker ==
    /\ started <= 1
    /\ start_enabled = (started = 0)
    /\ stop_enabled = (started = 1)
    /\ (organizing_thread = "thread") = (started = 1)
    /\ (pc = "none") = (started = 0)
    /\ cpc = "stopping" => organizing_thread = "thread"

\* C16: start_organization disables the start button as it launches the
\* worker and nothing enables it again, so the window never starts a second
\* worker, and stop_organization addresses that one worker.
C16_SingleWorker ==
    /\ []OneWorker
    /\ [][/\ ~start_enabled => ~start_enabled'
          /\ started' # started => start_enabled /\ ~start_enabled' /\ pc = "none"
          /\ stopCalls' # stopCalls => organizing_thread = "thread" /\ pc # "none"]_vars

\* The worker has crashed in makedirs, stop was asked, and the start button
\* is still disabled.
C16_Witness ==
    /\ pc = "crashed" /\ ~start_enabled /\ started = 1 /\ stopCalls = 1

\* C17: with the destination outside the source tree, entries that are no
\* image or video are never read, copied, moved or removed; Copy mode leaves
\* the source tree as it was; in Move mode a file is gone from its source
\* path exactly when a success log was emitted for it, so a file whose move
\* failed or was never reached is still there.
C17_Frame ==
    /\ srcFiles \subseteq Range(walk)
    /\ \A k \in 1..Len(trace) : trace[k].id # 0 => trace[k].id \in MediaIds
    /\ pc \in {"date", "mkdirs", "reloc", "crashed"} => walk[idx] \in MediaIds
    /\ \A i \in 1..Len(walk) : walk[i] \notin MediaIds => walk[i] \in srcFiles
    /\ (copy_files /\ pc \notin {"none", "start"}) => srcFiles = Range(walk)
    /\ (~copy_files /\ pc \notin {"none", "start"}) =>
          \A i \in 1..Len(walk) :
              /\ (walk[i] \notin srcFiles) = (LogsOf(trace, "moved", walk[i]) = 1)
              /\ LogsOf(trace, "error", walk[i]) = 1 => walk[i] \in srcFiles
              /\ i > idx => walk[i] \in srcFiles

\* A Move run stopped before its third entry: a.jpg moved, the move of
\* sub/c.MP4 failed, sub/f.JPeG never reached.
C17_Witness ==
    /\ ~copy_files /\ pc = "done"
    /\ walk = <<1, 5, 7>>
    /\ Last(trace) = Log("stopped", 0, <<>>)
    /\ LogsOf(trace, "moved", 1) = 1 /\ LogsOf(trace, "error", 5) = 1
    /\ srcFiles = {5, 7}

====
